---- MODULE Spec2Model ----
(***************************************************************************)
(* Model of chemeos/antoine.py: the Antoine correlation evaluator          *)
(* (saturation_pressure) and the coefficient library                       *)
(* (AntoineCoefficientLib) with its registration and query methods.        *)
(*                                                                         *)
(* Numbers are integers.  The quotient b/(c + temp) is kept as an exact    *)
(* fraction in lowest terms and a power base**exponent is kept as the pair *)
(* of its base and its exponent, so two pressures are equal exactly when   *)
(* base and exponent agree.  A raised exception is a record carrying the   *)
(* exception class and the message string it was constructed with.         *)
(***************************************************************************)
EXTENDS Integers, Sequences, FiniteSets, TLC

(* ------------------------------ bounds --------------------------------- *)

\* Largest number of add_coefficients calls on one library.
MaxSets == 2

\* Queried temperatures range over 0..MaxTemp.
MaxTemp == 2

\* Species names a caller registers or queries (src.py names the first two).
Species == {"methanol", "benzene"}

\* Argument tuples <<A, B, C, lower limit, upper limit>> a caller passes to
\* add_coefficients: two sets over the same range 1..2 (C + T = 0 at T = 2 for
\* the second), a set over the single temperature 1, and a set whose limits
\* are passed in the wrong order.
ArgVals == {<<1, 2, 1, 1, 2>>, <<2, 3, -2, 1, 2>>, <<3, 1, 2, 1, 1>>, <<1, 2, 1, 2, 1>>}

\* Unit label a caller constructs the library with (src.py, CELSIUS).
UnitVals == {"Celsius"}

Temps == 0..MaxTemp

(* --------------------------- module constants -------------------------- *)

_COEFF_A_KEY == "A"
_COEFF_B_KEY == "B"
_COEFF_C_KEY == "C"
_UPPER_TEMPERATURE_LIMIT_KEY == "upper temperature limit"
_LOWER_TEMPERATURE_LIMIT_KEY == "lower temperature limit"

\* np.e, the base of the natural logarithm, kept symbolic.
np_e == "e"

(* ------------------------------- state --------------------------------- *)

VARIABLES
    antoine_coeff_lib,   \* self.antoine_coeff_lib: species name -> list of dicts
    is_log10,            \* self.is_log10
    temperature_units,   \* self.temperature_units
    call,                \* the method call that ran last, with its arguments
    outcome,             \* what that call returned or raised
    passed               \* history: per species name, the argument tuples
                         \* passed to add_coefficients, in call order

vars == <<antoine_coeff_lib, is_log10, temperature_units, call, outcome, passed>>

(* ------------------------- values and exceptions ----------------------- *)

\* A returned value.
Return(v) == [kind |-> "return", val |-> v]

\* A raised exception of class cls constructed with message msg ("" when the
\* exception is constructed without arguments).
Raise(cls, msg) == [kind |-> cls, val |-> msg]

SpeciesNotFound(msg) == Raise("SpeciesNotFound", msg)

TemperatureOutOfRange(msg) == Raise("TemperatureOutOfRange", msg)

ZeroDivisionError == Raise("ZeroDivisionError", "division by zero")

\* str() of an integer: its decimal digits, with a leading minus sign.
RECURSIVE str(_)
str(n) ==
    IF n < 0 THEN "-" \o str(-n)
    ELSE IF n < 10 THEN SubSeq("0123456789", n + 1, n + 1)
    ELSE str(n \div 10) \o str(n % 10)

(* --------------------------- exact arithmetic -------------------------- *)

Abs(n) == IF n < 0 THEN -n ELSE n

RECURSIVE Gcd(_, _)
Gcd(m, n) == IF n = 0 THEN m ELSE Gcd(n, m % n)

\* The fraction n/d (d # 0) in lowest terms with a positive denominator.
Frac(n, d) ==
    LET g == Gcd(Abs(n), Abs(d))
        s == IF d < 0 THEN -1 ELSE 1
    IN  <<(s * n) \div g, (s * d) \div g>>

\* base**exponent
Pow(base, exponent) == [base |-> base, exponent |-> exponent]

(* ------------------------- correlation evaluator ----------------------- *)

\* exponent = coeff_a_val - coeff_b_val/(coeff_c_val + temp), as a fraction.
Exponent(coeff_a_val, coeff_b_val, coeff_c_val, temp) ==
    Frac(coeff_a_val * (coeff_c_val + temp) - coeff_b_val, coeff_c_val + temp)

\* saturation_pressure with the natural-log branch lost: always 10**exponent.
saturation_pressure_base10(coeff_a_val, coeff_b_val, coeff_c_val, temp, log10) ==
    IF coeff_c_val + temp = 0 THEN ZeroDivisionError
    ELSE Return(Pow("10", Exponent(coeff_a_val, coeff_b_val, coeff_c_val, temp)))

saturation_pressure(coeff_a_val, coeff_b_val, coeff_c_val, temp, log10) ==
    IF coeff_c_val + temp = 0 THEN ZeroDivisionError
    ELSE LET exponent == Exponent(coeff_a_val, coeff_b_val, coeff_c_val, temp)
         IN  IF log10 = TRUE THEN Return(Pow("10", exponent))
             ELSE Return(Pow(np_e, exponent))

\* _check_temperature with "or" in place of "and".
_check_temperature_or(temperature, dct) ==
    \/ temperature >= dct[_LOWER_TEMPERATURE_LIMIT_KEY]
    \/ temperature <= dct[_UPPER_TEMPERATURE_LIMIT_KEY]

_check_temperature(temperature, dct) ==
    /\ temperature >= dct[_LOWER_TEMPERATURE_LIMIT_KEY]
    /\ temperature <= dct[_UPPER_TEMPERATURE_LIMIT_KEY]

(* --------------------------- library: queries -------------------------- *)

\* new_item with the two limits stored under each other's key.
new_item_swapped(coeff_a_val, coeff_b_val, coeff_c_val, lower_temperature_limit_val, upper_temperature_limit_val) ==
    (_COEFF_A_KEY :> coeff_a_val) @@ (_COEFF_B_KEY :> coeff_b_val) @@
    (_COEFF_C_KEY :> coeff_c_val) @@
    (_LOWER_TEMPERATURE_LIMIT_KEY :> upper_temperature_limit_val) @@
    (_UPPER_TEMPERATURE_LIMIT_KEY :> lower_temperature_limit_val)

\* The dict add_coefficients builds from its arguments.
new_item(coeff_a_val, coeff_b_val, coeff_c_val, lower_temperature_limit_val, upper_temperature_limit_val) ==
    (_COEFF_A_KEY :> coeff_a_val) @@ (_COEFF_B_KEY :> coeff_b_val) @@
    (_COEFF_C_KEY :> coeff_c_val) @@
    (_LOWER_TEMPERATURE_LIMIT_KEY :> lower_temperature_limit_val) @@
    (_UPPER_TEMPERATURE_LIMIT_KEY :> upper_temperature_limit_val)

\* first_match with the loop run to its end: the last dict that matches.
RECURSIVE last_match(_, _, _)
last_match(coeffs, temperature, i) ==
    IF i > Len(coeffs) THEN 0
    ELSE LET later == last_match(coeffs, temperature, i + 1)
         IN  IF later # 0 THEN later
             ELSE IF _check_temperature(temperature, coeffs[i]) = TRUE THEN i
             ELSE 0

\* The for loop of get_coeffs from position i on: the position of the first
\* dict of coeffs whose range holds temperature, 0 when the loop runs out.
RECURSIVE first_match(_, _, _)
first_match(coeffs, temperature, i) ==
    IF i > Len(coeffs) THEN 0
    ELSE IF _check_temperature(temperature, coeffs[i]) = TRUE THEN i
    ELSE first_match(coeffs, temperature, i + 1)

\* A returned dict is an element of the stored list: pos is its position in
\* the species' list (its identity), val its contents.
ReturnItem(coeffs, i) == [kind |-> "return", val |-> coeffs[i], pos |-> i]

\* The message of the TemperatureOutOfRange that get_coeffs raises.
out_of_range_message(units, temperature) ==
    "There is no availible set of coefficients         with a temperature range "
    \o str(temperature) \o " " \o units \o " is within the bounds of."

\* get_coeffs reading the entry with a default: an unknown species has the
\* empty list of sets.
get_coeffs_default(lib, units, species_name, temperature) ==
    LET coeffs == IF species_name \in DOMAIN lib THEN lib[species_name] ELSE <<>>
        i == first_match(coeffs, temperature, 1)
    IN  IF i # 0 THEN ReturnItem(coeffs, i)
        ELSE TemperatureOutOfRange(out_of_range_message(units, temperature))

\* get_coeffs returning the loop variable after the loop: the last set of the
\* species when none matches.
get_coeffs_fallback(lib, units, species_name, temperature) ==
    IF species_name \notin DOMAIN lib
    THEN SpeciesNotFound(species_name \o " is not in this dictionary")
    ELSE LET coeffs == lib[species_name]
             i == first_match(coeffs, temperature, 1)
         IN  IF i # 0 THEN ReturnItem(coeffs, i)
             ELSE ReturnItem(coeffs, Len(coeffs))

get_coeffs(lib, units, species_name, temperature) ==
    IF species_name \notin DOMAIN lib
    THEN SpeciesNotFound(species_name \o " is not in this dictionary")
    ELSE LET coeffs == lib[species_name]
             i == first_match(coeffs, temperature, 1)
         IN  IF i # 0 THEN ReturnItem(coeffs, i)
             ELSE TemperatureOutOfRange(out_of_range_message(units, temperature))

\* get_coeffs(...)[key]: an exception of get_coeffs propagates.
Subscript(r, key) == IF r.kind = "return" THEN Return(r.val[key]) ELSE r

get_a(lib, units, species_name, temperature) ==
    Subscript(get_coeffs(lib, units, species_name, temperature), _COEFF_A_KEY)

\* get_b reading the key of coefficient A.
get_b_as_a(lib, units, species_name, temperature) ==
    Subscript(get_coeffs(lib, units, species_name, temperature), _COEFF_A_KEY)

get_b(lib, units, species_name, temperature) ==
    Subscript(get_coeffs(lib, units, species_name, temperature), _COEFF_B_KEY)

get_c(lib, units, species_name, temperature) ==
    Subscript(get_coeffs(lib, units, species_name, temperature), _COEFF_C_KEY)

get_saturation_pressure(lib, units, log10, species_name, temperature) ==
    IF species_name \notin DOMAIN lib THEN SpeciesNotFound("")
    ELSE LET coeffs == get_coeffs(lib, units, species_name, temperature)
         IN  IF coeffs.kind # "return" THEN coeffs
             ELSE IF _check_temperature(temperature, coeffs.val) = FALSE
                  THEN TemperatureOutOfRange("")
                  ELSE saturation_pressure(coeffs.val[_COEFF_A_KEY],
                                           coeffs.val[_COEFF_B_KEY],
                                           coeffs.val[_COEFF_C_KEY],
                                           temperature, log10)

(* ------------------------------ actions -------------------------------- *)

Call(method, species_name, temperature) ==
    [method |-> method, species_name |-> species_name, temperature |-> temperature]

\* Number of dicts the library holds.
RECURSIVE Held(_, _)
Held(lib, names) ==
    IF names = {} THEN 0
    ELSE LET n == CHOOSE x \in names : TRUE
         IN  Len(lib[n]) + Held(lib, names \ {n})

\* AntoineCoefficientLib(temperature_units, pressure_units, source, is_log10)
Init ==
    /\ antoine_coeff_lib = <<>>
    /\ is_log10 \in BOOLEAN
    /\ temperature_units \in UnitVals
    /\ call = Call("__init__", "", 0)
    /\ outcome = Return("None")
    /\ passed = <<>>

\* add_coefficients assigning a fresh one-element list in both branches.
add_coefficients_overwrite(species_name, coeff_a_val, coeff_b_val, coeff_c_val, lower_temperature_limit_val, upper_temperature_limit_val) ==
    LET item == new_item(coeff_a_val, coeff_b_val, coeff_c_val,
                         lower_temperature_limit_val, upper_temperature_limit_val)
    IN  /\ IF species_name \in DOMAIN antoine_coeff_lib
           THEN antoine_coeff_lib' =
                    [antoine_coeff_lib EXCEPT ![species_name] = <<item>>]
           ELSE antoine_coeff_lib' =
                    antoine_coeff_lib @@ (species_name :> <<item>>)
        /\ call' = Call("add_coefficients", species_name, 0)
        /\ outcome' = Return("None")
        /\ UNCHANGED <<is_log10, temperature_units>>

\* add_coefficients inserting the new dict at the head of the list.
add_coefficients_prepend(species_name, coeff_a_val, coeff_b_val, coeff_c_val, lower_temperature_limit_val, upper_temperature_limit_val) ==
    LET item == new_item(coeff_a_val, coeff_b_val, coeff_c_val,
                         lower_temperature_limit_val, upper_temperature_limit_val)
    IN  /\ IF species_name \in DOMAIN antoine_coeff_lib
           THEN antoine_coeff_lib' =
                    [antoine_coeff_lib EXCEPT ![species_name] = <<item>> \o @]
           ELSE antoine_coeff_lib' =
                    antoine_coeff_lib @@ (species_name :> <<item>>)
        /\ call' = Call("add_coefficients", species_name, 0)
        /\ outcome' = Return("None")
        /\ UNCHANGED <<is_log10, temperature_units>>

add_coefficients(species_name, coeff_a_val, coeff_b_val, coeff_c_val, lower_temperature_limit_val, upper_temperature_limit_val) ==
    LET item == new_item(coeff_a_val, coeff_b_val, coeff_c_val,
                         lower_temperature_limit_val, upper_temperature_limit_val)
    IN  /\ IF species_name \in DOMAIN antoine_coeff_lib
           THEN antoine_coeff_lib' =
                    [antoine_coeff_lib EXCEPT ![species_name] = Append(@, item)]
           ELSE antoine_coeff_lib' =
                    antoine_coeff_lib @@ (species_name :> <<item>>)
        /\ call' = Call("add_coefficients", species_name, 0)
        /\ outcome' = Return("None")
        /\ UNCHANGED <<is_log10, temperature_units>>

\* The history add_coefficients leaves behind: its arguments, in call order.
Record(species_name, args) ==
    passed' = IF species_name \in DOMAIN passed
              THEN [passed EXCEPT ![species_name] = Append(@, args)]
              ELSE passed @@ (species_name :> <<args>>)

AddCoefficients ==
    /\ Held(antoine_coeff_lib, DOMAIN antoine_coeff_lib) < MaxSets
    /\ \E species_name \in Species, args \in ArgVals :
          /\ add_coefficients(species_name, args[1], args[2], args[3], args[4], args[5])
          /\ Record(species_name, args)

Query(method, result) ==
    /\ call' = Call(method, result[1], result[2])
    /\ outcome' = result[3]
    /\ UNCHANGED <<antoine_coeff_lib, is_log10, temperature_units, passed>>

GetCoeffs ==
    \E s \in Species, T \in Temps :
        Query("get_coeffs", <<s, T, get_coeffs(antoine_coeff_lib, temperature_units, s, T)>>)

GetA ==
    \E s \in Species, T \in Temps :
        Query("get_a", <<s, T, get_a(antoine_coeff_lib, temperature_units, s, T)>>)

GetB ==
    \E s \in Species, T \in Temps :
        Query("get_b", <<s, T, get_b(antoine_coeff_lib, temperature_units, s, T)>>)

GetC ==
    \E s \in Species, T \in Temps :
        Query("get_c", <<s, T, get_c(antoine_coeff_lib, temperature_units, s, T)>>)

GetSaturationPressure ==
    \E s \in Species, T \in Temps :
        Query("get_saturation_pressure",
              <<s, T, get_saturation_pressure(antoine_coeff_lib, temperature_units,
                                              is_log10, s, T)>>)

Next ==
    \/ AddCoefficients
    \/ GetCoeffs
    \/ GetA
    \/ GetB
    \/ GetC
    \/ GetSaturationPressure

Spec == Init /\ [][Next]_vars

(* ------------------------ vocabulary of the claims --------------------- *)

lib == antoine_coeff_lib

QueryMethods == {"get_coeffs", "get_a", "get_b", "get_c", "get_saturation_pressure"}

\* The last operation was a query.
Queried == call.method \in QueryMethods

\* The range of the set d holds T, both ends included.
Holds(d, T) ==
    d["lower temperature limit"] <= T /\ T <= d["upper temperature limit"]

\* Positions of the sets of species s that hold T.
Holding(s, T) == {i \in 1..Len(lib[s]) : Holds(lib[s][i], T)}

\* Smallest insertion index among the sets of s that hold T.
Earliest(s, T) == CHOOSE i \in Holding(s, T) : \A j \in Holding(s, T) : i <= j

\* sub occurs in the string str.
Occurs(sub, text) ==
    \E i \in 1..(Len(text) - Len(sub) + 1) : SubSeq(text, i, i + Len(sub) - 1) = sub

\* What get_coeffs gives in the current state for the arguments of the last call.
Resolved == get_coeffs(lib, temperature_units, call.species_name, call.temperature)

(* ------------------------------- claims -------------------------------- *)

\* C1: for a registered species and a temperature held by at least one of its
\* sets (ends included), get_coeffs returns the set with the smallest
\* insertion index among those holding the temperature.
C1_FirstMatch ==
    (/\ call.method = "get_coeffs"
     /\ call.species_name \in DOMAIN lib
     /\ Holding(call.species_name, call.temperature) # {})
    => /\ outcome.kind = "return"
       /\ outcome.pos = Earliest(call.species_name, call.temperature)
       /\ outcome.val = lib[call.species_name][outcome.pos]

\* C1 witness: get_coeffs was asked for a temperature that two sets of the
\* species hold, the second one at its very limit, and answered.
C1_Witness ==
    /\ call.method = "get_coeffs"
    /\ call.species_name \in DOMAIN lib
    /\ Holding(call.species_name, call.temperature) = {1, 2}
    /\ lib[call.species_name][1] # lib[call.species_name][2]
    /\ lib[call.species_name][2]["upper temperature limit"] = call.temperature
    /\ outcome.kind = "return"

\* C2: every query for a species name never passed to add_coefficients
\* fails with SpeciesNotFound, whatever the temperature.
C2_UnknownSpecies ==
    (Queried /\ call.species_name \notin DOMAIN passed)
    => outcome.kind = "SpeciesNotFound"

\* C2 witness: a library that holds one species was asked for another one.
C2_Witness ==
    /\ Queried
    /\ call.species_name \notin DOMAIN passed
    /\ DOMAIN passed # {}
    /\ outcome.kind = "SpeciesNotFound"

\* C3: every query for a registered species at a temperature none of its
\* sets holds fails with TemperatureOutOfRange.
C3_OutOfRange ==
    (/\ Queried
     /\ call.species_name \in DOMAIN passed
     /\ call.species_name \in DOMAIN lib
     /\ Holding(call.species_name, call.temperature) = {})
    => outcome.kind = "TemperatureOutOfRange"

\* C3 witness: get_saturation_pressure was asked for a temperature above the
\* range of the only set of a registered species.
C3_Witness ==
    /\ call.method = "get_saturation_pressure"
    /\ call.species_name \in DOMAIN lib
    /\ Len(lib[call.species_name]) = 1
    /\ lib[call.species_name][1]["lower temperature limit"]
           <= lib[call.species_name][1]["upper temperature limit"]
    /\ call.temperature > lib[call.species_name][1]["upper temperature limit"]
    /\ outcome.kind = "TemperatureOutOfRange"

\* C4: when get_coeffs succeeds with set S, get_saturation_pressure gives
\* what the evaluator gives on S.A, S.B, S.C, the temperature and the
\* library's flag: the base (10 when the flag is true, e otherwise) raised
\* to A - B/(C + T), the division by zero of C + T = 0 propagating.
C4_Pressure ==
    (call.method = "get_saturation_pressure" /\ Resolved.kind = "return")
    => LET S == lib[call.species_name][Resolved.pos]
           T == call.temperature
       IN  IF S["C"] + T = 0
           THEN outcome.kind = "ZeroDivisionError"
           ELSE /\ outcome.kind = "return"
                /\ outcome.val.base = (IF is_log10 THEN "10" ELSE "e")
                /\ outcome.val.exponent[2] # 0
                /\ outcome.val.exponent[1] * (S["C"] + T)
                       = (S["A"] * (S["C"] + T) - S["B"]) * outcome.val.exponent[2]

\* C4 witness: a pressure was computed in the natural-log convention from
\* the second set of a species, whose first set does not hold the temperature.
C4_Witness ==
    /\ call.method = "get_saturation_pressure"
    /\ outcome.kind = "return"
    /\ is_log10 = FALSE
    /\ Resolved.kind = "return"
    /\ Resolved.pos = 2
    /\ lib[call.species_name][1]["A"] # lib[call.species_name][2]["A"]
    /\ outcome.val.exponent[2] > 1

\* The entry of species s is the sequence of tuples passed for s, in order.
EntryIsPassed(s) ==
    /\ Len(lib[s]) = Len(passed[s])
    /\ \A i \in 1..Len(passed[s]) :
           /\ DOMAIN lib[s][i] = {"A", "B", "C", "lower temperature limit",
                                  "upper temperature limit"}
           /\ lib[s][i]["A"] = passed[s][i][1]
           /\ lib[s][i]["B"] = passed[s][i][2]
           /\ lib[s][i]["C"] = passed[s][i][3]
           /\ lib[s][i]["lower temperature limit"] = passed[s][i][4]
           /\ lib[s][i]["upper temperature limit"] = passed[s][i][5]

\* A step keeps every registered set where it is, and changes at most the
\* entry of the species named in an add_coefficients call.
SetsKept ==
    \A s \in DOMAIN lib :
        /\ s \in DOMAIN lib'
        /\ Len(lib'[s]) >= Len(lib[s])
        /\ SubSeq(lib'[s], 1, Len(lib[s])) = lib[s]
        /\ (call'.method # "add_coefficients" \/ call'.species_name # s)
               => lib'[s] = lib[s]

\* C5: after any sequence of registrations and queries the entry of each
\* species is exactly the sequence of tuples passed to add_coefficients under
\* its name, in call order, and no step modifies, reorders or removes a
\* registered set or touches another species' entry.
C5_EntriesArePassed ==
    /\ [](DOMAIN lib = DOMAIN passed /\ \A s \in DOMAIN passed : EntryIsPassed(s))
    /\ [][SetsKept]_vars

\* C5 witness: a species holds two different sets in the order they were
\* passed, and a query has run since.
C5_Witness ==
    /\ Queried
    /\ \E s \in DOMAIN passed :
           /\ Len(passed[s]) = 2
           /\ passed[s][1] # passed[s][2]
           /\ EntryIsPassed(s)

\* C6: get_a, get_b and get_c end as get_coeffs does: with the same
\* exception when it fails, and with the A, B and C of the one set it
\* returns when it succeeds.
C6_Accessors ==
    /\ call.method \in {"get_a", "get_b", "get_c"}
           => IF Resolved.kind = "return"
              THEN /\ outcome.kind = "return"
                   /\ outcome.val =
                          lib[call.species_name][Resolved.pos][
                              CASE call.method = "get_a" -> "A"
                                []   call.method = "get_b" -> "B"
                                []   call.method = "get_c" -> "C"]
              ELSE outcome = Resolved
    /\ \A s \in DOMAIN lib, T \in Temps :
           LET r == get_coeffs(lib, temperature_units, s, T)
               S == lib[s][r.pos]
           IN  r.kind = "return"
                   => /\ get_a(lib, temperature_units, s, T).val = S["A"]
                      /\ get_b(lib, temperature_units, s, T).val = S["B"]
                      /\ get_c(lib, temperature_units, s, T).val = S["C"]

\* C6 witness: get_b returned the B of the second set of a species whose
\* first set has another B and does not hold the temperature.
C6_Witness ==
    /\ call.method = "get_b"
    /\ outcome.kind = "return"
    /\ Resolved.kind = "return"
    /\ Resolved.pos = 2
    /\ lib[call.species_name][1]["B"] # lib[call.species_name][2]["B"]
    /\ outcome.val # lib[call.species_name][2]["A"]

\* C7: every SpeciesNotFound raised by a query carries the name of the
\* species that was queried.
C7_CarriesName ==
    (Queried /\ outcome.kind = "SpeciesNotFound")
    => Occurs(call.species_name, outcome.val)

\* Every tuple passed to add_coefficients had lower limit <= upper limit.
PassedOrdered ==
    \A s \in DOMAIN passed : \A i \in 1..Len(passed[s]) :
        passed[s][i][4] <= passed[s][i][5]

\* Every set the library holds has lower limit <= upper limit.
HeldOrdered ==
    \A s \in DOMAIN lib : \A i \in 1..Len(lib[s]) :
        lib[s][i]["lower temperature limit"] <= lib[s][i]["upper temperature limit"]

\* C8, as stated: in every reachable state every set held has
\* lower limit <= upper limit.
C8_AlwaysOrdered == HeldOrdered

\* C8, amended: after any sequence of add_coefficients calls each of which
\* passed lower limit <= upper limit, every set held has
\* lower limit <= upper limit.
C8_OrderedIfPassedOrdered == PassedOrdered => HeldOrdered

\* C8 witness: two sets were registered, one with lower limit < upper limit,
\* every call having passed ordered limits.
C8_Witness ==
    /\ PassedOrdered
    /\ \E s \in DOMAIN lib :
           /\ Len(lib[s]) = 2
           /\ lib[s][2]["lower temperature limit"] < lib[s][2]["upper temperature limit"]

\* C9: the range check get_saturation_pressure repeats on the set returned
\* by get_coeffs never fails: a TemperatureOutOfRange of
\* get_saturation_pressure is the one get_coeffs raised, and when get_coeffs
\* returns no TemperatureOutOfRange is raised.
C9_RecheckHolds ==
    call.method = "get_saturation_pressure"
    => /\ outcome.kind = "TemperatureOutOfRange"
              => Resolved.kind = "TemperatureOutOfRange" /\ outcome = Resolved
       /\ Resolved.kind = "return" => outcome.kind # "TemperatureOutOfRange"

\* C9 witness: get_saturation_pressure got a set from get_coeffs with the
\* temperature at the set's lower limit, and the repeated check let it pass.
C9_Witness ==
    /\ call.method = "get_saturation_pressure"
    /\ Resolved.kind = "return"
    /\ Resolved.val["lower temperature limit"] = call.temperature
    /\ outcome.kind \in {"return", "ZeroDivisionError"}

\* C10: a resolution that succeeds is not changed by a later step: if
\* get_coeffs returns a set for (s, T), it returns the same set, at the same
\* place, after any further add_coefficients call.
C10_Stable ==
    [][\A s \in DOMAIN lib, T \in Temps :
           get_coeffs(lib, temperature_units, s, T).kind = "return"
               => get_coeffs(lib', temperature_units', s, T)
                      = get_coeffs(lib, temperature_units, s, T)]_vars

\* C10 witness: a species got a second, different set holding a temperature
\* its first set already held, and get_coeffs was asked for it afterwards.
C10_Witness ==
    /\ call.method = "get_coeffs"
    /\ call.species_name \in DOMAIN lib
    /\ Len(lib[call.species_name]) = 2
    /\ lib[call.species_name][1] # lib[call.species_name][2]
    /\ Holding(call.species_name, call.temperature) = {1, 2}
    /\ outcome.kind = "return"
    /\ outcome.pos = 1

====
